---- MODULE Spec2Model ----
(***************************************************************************)
(* Model of cmd/podman/system/connection/add.go: the "system connection   *)
(* add" and "context create" commands and the translateDest helper.        *)
(*                                                                         *)
(* Go strings are modelled as sequences of one-character strings, so that  *)
(* splitting, joining, quoting, URL parsing and URL formatting are         *)
(* computed character by character as the library routines compute them.   *)
(***************************************************************************)
EXTENDS Integers, Sequences, FiniteSets, TLC

----------------------------------------------------------------------------
(* Characters and string helpers (package strings)                         *)

LowerLetters == <<"a","b","c","d","e","f","g","h","i","j","k","l","m",
                  "n","o","p","q","r","s","t","u","v","w","x","y","z">>

UpperLetters == <<"A","B","C","D","E","F","G","H","I","J","K","L","M",
                  "N","O","P","Q","R","S","T","U","V","W","X","Y","Z">>

Letter == {LowerLetters[i] : i \in 1..26} \cup {UpperLetters[i] : i \in 1..26}

Digit == {"0","1","2","3","4","5","6","7","8","9"}

\* [A-Za-z0-9+.-]: the characters a URI scheme may continue with
SchemeChar == Letter \cup Digit \cup {"+", ".", "-"}

\* strings.ToLower on one ASCII character
ToLowerChar(c) ==
    IF \E i \in 1..26 : UpperLetters[i] = c
    THEN LowerLetters[CHOOSE i \in 1..26 : UpperLetters[i] = c]
    ELSE c

ToLower(s) == [i \in 1..Len(s) |-> ToLowerChar(s[i])]

\* strings.HasPrefix
HasPrefix(s, p) == Len(s) >= Len(p) /\ SubSeq(s, 1, Len(p)) = p

\* s[i:] with i a 1-based first index
From(s, i) == SubSeq(s, i, Len(s))

\* strings.IndexByte, 1-based; 0 when c does not occur
Index(s, c) ==
    IF \E i \in 1..Len(s) : s[i] = c
    THEN CHOOSE i \in 1..Len(s) : s[i] = c /\ \A j \in 1..(i - 1) : s[j] # c
    ELSE 0

\* strings.LastIndexByte, 1-based; 0 when c does not occur
LastIndex(s, c) ==
    IF \E i \in 1..Len(s) : s[i] = c
    THEN CHOOSE i \in 1..Len(s) : s[i] = c /\ \A j \in (i + 1)..Len(s) : s[j] # c
    ELSE 0

\* strings.Contains for a substring
Contains(s, sub) ==
    \E i \in 1..(Len(s) - Len(sub) + 1) : SubSeq(s, i, i + Len(sub) - 1) = sub

\* strings.SplitN(s, sep, 2) for a one-character separator
SplitN2(s, sep) ==
    LET i == Index(s, sep)
    IN  IF i = 0 THEN <<s>> ELSE <<SubSeq(s, 1, i - 1), From(s, i + 1)>>

\* strings.Split(s, sep) for a one-character separator
RECURSIVE Split(_, _)
Split(s, sep) ==
    LET i == Index(s, sep)
    IN  IF i = 0 THEN <<s>>
        ELSE <<SubSeq(s, 1, i - 1)>> \o Split(From(s, i + 1), sep)

\* strings.Join(elems, sep)
RECURSIVE Join(_, _)
Join(elems, sep) ==
    IF Len(elems) = 0 THEN <<>>
    ELSE IF Len(elems) = 1 THEN elems[1]
    ELSE elems[1] \o sep \o Join(Tail(elems), sep)

\* fmt's %q verb (strconv.Quote) on printable ASCII: the text in double
\* quotes, with every backslash and double quote preceded by a backslash
RECURSIVE QuoteBody(_)
QuoteBody(s) ==
    IF Len(s) = 0 THEN <<>>
    ELSE (IF Head(s) \in {"\\", "\""} THEN <<"\\", Head(s)>> ELSE <<Head(s)>>)
         \o QuoteBody(Tail(s))

Quote(s) == <<"\"">> \o QuoteBody(s) \o <<"\"">>

----------------------------------------------------------------------------
(* translateDest                                                            *)

\* "--docker additional options " and " not supported": the text around %q
MsgAdditionalPrefix ==
    <<"-","-","d","o","c","k","e","r"," ","a","d","d","i","t","i","o","n","a","l"," ","o","p","t","i","o","n","s"," ">>

MsgAdditionalSuffix ==
    <<" ","n","o","t"," ","s","u","p","p","o","r","t","e","d">>

\* "\"host\" is requited for --docker option"
MsgHostRequired ==
    <<"\"","h","o","s","t","\""," ","i","s"," ","r","e","q","u","i","t","e","d"," ","f","o","r"," ","-","-","d","o","c","k","e","r"," ","o","p","t","i","o","n">>

KeyHost == <<"h","o","s","t">>

\* translateDest as it would be if the segments after the first comma were
\* ignored
translateDest_DropsRest(path) ==
    IF path = <<>> THEN [dest |-> <<>>, err |-> "", msg |-> <<>>]
    ELSE
    LET split == SplitN2(path, "=")
    IN  IF Len(split) = 1 THEN [dest |-> split[1], err |-> "", msg |-> <<>>]
        ELSE IF split[1] # KeyHost
        THEN [dest |-> <<>>, err |-> "InvalidOption", msg |-> MsgHostRequired]
        ELSE [dest |-> Split(split[2], ",")[1], err |-> "", msg |-> <<>>]

\* translateDest(path): the destination, or an error and its message.
\* err is "" for a nil error; InvalidOption and UnsupportedOption name the
\* two fmt.Errorf returns.
translateDest(path) ==
    IF path = <<>> THEN [dest |-> <<>>, err |-> "", msg |-> <<>>]
    ELSE
    LET split == SplitN2(path, "=")
    IN  IF Len(split) = 1 THEN [dest |-> split[1], err |-> "", msg |-> <<>>]
        ELSE IF split[1] # KeyHost
        THEN [dest |-> <<>>, err |-> "InvalidOption", msg |-> MsgHostRequired]
        ELSE
        LET vals == Split(split[2], ",")
        IN  IF Len(vals) > 1
            THEN [dest |-> <<>>, err |-> "UnsupportedOption",
                  msg |-> MsgAdditionalPrefix
                          \o Quote(Join(Tail(vals), <<",">>))
                          \o MsgAdditionalSuffix]
            ELSE [dest |-> vals[1], err |-> "", msg |-> <<>>]

----------------------------------------------------------------------------
(* regexp.MatchString and package net/url, on destinations over the        *)
(* characters letters, digits and : / . - + = ,  (no userinfo, query,      *)
(* fragment, percent escape or IPv6 literal, which no destination of the   *)
(* model contains; none of these characters is escaped by URL.String).     *)

SchemeSep == <<":","/","/">>

SshPrefix == <<"s","s","h",":","/","/">>

\* regexp.MatchString("^[A-Za-z][A-Za-z0-9+.-]*://", dest)
MatchScheme(dest) ==
    /\ Len(dest) >= 1
    /\ dest[1] \in Letter
    /\ \E k \in 1..(Len(dest) - 3) :
          /\ \A i \in 2..k : dest[i] \in SchemeChar
          /\ SubSeq(dest, k + 1, k + 3) = SchemeSep

\* the scheme defaulting both commands apply before url.Parse
WithScheme(dest) == IF MatchScheme(dest) THEN dest ELSE SshPrefix \o dest

\* url.getScheme: scan to the first character that ends the scheme
getScheme(raw) ==
    LET stops == {i \in 1..Len(raw) :
                     /\ raw[i] \notin Letter
                     /\ ~(i > 1 /\ raw[i] \in Digit \cup {"+", "-", "."})}
    IN  IF stops = {} THEN [err |-> FALSE, scheme |-> <<>>, rest |-> raw]
        ELSE
        LET i == CHOOSE j \in stops : \A m \in stops : j <= m
        IN  IF raw[i] # ":" THEN [err |-> FALSE, scheme |-> <<>>, rest |-> raw]
            ELSE IF i = 1 THEN [err |-> TRUE, scheme |-> <<>>, rest |-> <<>>]
            ELSE [err |-> FALSE, scheme |-> SubSeq(raw, 1, i - 1),
                  rest |-> From(raw, i + 1)]

\* url.validOptionalPort: "" or ":" followed by digits only
validOptionalPort(port) ==
    \/ port = <<>>
    \/ /\ port[1] = ":"
       /\ \A i \in 2..Len(port) : port[i] \in Digit

\* url.parseHost: a host whose text after the last colon is not a port is
\* rejected
validHost(host) ==
    LET i == LastIndex(host, ":")
    IN  i = 0 \/ validOptionalPort(From(host, i))

NoURL == [err |-> TRUE, Scheme |-> <<>>, Opaque |-> <<>>, Host |-> <<>>,
          Path |-> <<>>, OmitHost |-> FALSE]

\* url.Parse
Parse(raw) ==
    LET gs == getScheme(raw)
    IN  IF gs.err THEN NoURL
        ELSE
        LET scheme == ToLower(gs.scheme)
            rest == gs.rest
        IN  IF ~HasPrefix(rest, <<"/">>)
            THEN IF scheme # <<>>
                 THEN [err |-> FALSE, Scheme |-> scheme, Opaque |-> rest,
                       Host |-> <<>>, Path |-> <<>>, OmitHost |-> FALSE]
                 ELSE IF Contains(SplitN2(rest, "/")[1], <<":">>)
                 THEN NoURL
                 ELSE [err |-> FALSE, Scheme |-> scheme, Opaque |-> <<>>,
                       Host |-> <<>>, Path |-> rest, OmitHost |-> FALSE]
            ELSE IF HasPrefix(rest, <<"/", "/">>)
                    /\ (scheme # <<>> \/ ~HasPrefix(rest, <<"/", "/", "/">>))
            THEN LET auth == From(rest, 3)
                     i == Index(auth, "/")
                     host == IF i = 0 THEN auth ELSE SubSeq(auth, 1, i - 1)
                     path == IF i = 0 THEN <<>> ELSE From(auth, i)
                 IN  IF ~validHost(host) THEN NoURL
                     ELSE [err |-> FALSE, Scheme |-> scheme, Opaque |-> <<>>,
                           Host |-> host, Path |-> path, OmitHost |-> FALSE]
            ELSE [err |-> FALSE, Scheme |-> scheme, Opaque |-> <<>>,
                  Host |-> <<>>, Path |-> rest, OmitHost |-> scheme # <<>>]

\* (*URL).Port: the text after the last colon of the host, when it is a port
Port(u) ==
    LET i == LastIndex(u.Host, ":")
    IN  IF i # 0 /\ validOptionalPort(From(u.Host, i))
        THEN From(u.Host, i + 1)
        ELSE <<>>

\* (*URL).String
String(u) ==
    (IF u.Scheme # <<>> THEN u.Scheme \o <<":">> ELSE <<>>)
    \o (IF u.Opaque # <<>> THEN u.Opaque
        ELSE (IF (u.Scheme # <<>> \/ u.Host # <<>>)
                 /\ ~(u.OmitHost /\ u.Host = <<>>)
                 /\ (u.Host # <<>> \/ u.Path # <<>>)
              THEN <<"/", "/">> ELSE <<>>)
             \o u.Host
             \o (IF u.Path # <<>> /\ u.Path[1] # "/" /\ u.Host # <<>>
                 THEN <<"/">> ELSE <<>>)
             \o u.Path)

----------------------------------------------------------------------------
(* The configuration and the commands                                      *)

VARIABLES
    cfg,    \* the stored configuration, as config.ReadCustomConfig returns it:
            \*   nil                 ServiceDestinations == nil
            \*   ServiceDestinations name -> [URI, Identity]
            \*   ActiveService       a name, or ""
    call    \* the command invocation that ran last (or, in the one-command
            \* specifications, the one about to run): its operation, its
            \* arguments and flags, what the environment answered, and how
            \* it ended

vars == <<cfg, call>>

SchemeSsh == <<"s","s","h">>

SchemeUnix == <<"u","n","i","x">>

SchemeTcp == <<"t","c","p">>

\* what os.Stat can answer for a path
StatOutcomes == {"ErrNotExist", "ErrPermission", "ErrOther", "NotSocket", "Socket"}

\* what the persistence collaborator can do in one command
IoOutcomes == {"ok", "read fails", "write fails"}

\* ssh.DefineMode(flag) != ssh.InvalidMode
ValidSSHMode(flag) == flag \in {"golang", "native"}

\* add: scheme defaulting, url.Parse and the --socket-path override
addURL(in) ==
    LET uri == Parse(WithScheme(in.dest))
    IN  IF uri.err THEN uri
        ELSE IF in.socketChanged THEN [uri EXCEPT !.Path = in.UDSPath]
        ELSE uri

\* add: does the command reach os.Stat (the unix branch, past --identity)?
addStats(uri, in) ==
    /\ ~uri.err
    /\ ValidSSHMode(in.SSHMode)
    /\ uri.Scheme = SchemeUnix
    /\ ~in.identityChanged

\* addCheck as it would be without the --identity tests
addCheck_IdentityAllowed(uri, in, st) ==
    IF uri.Scheme = SchemeSsh THEN "ssh.Create"
    ELSE IF uri.Scheme = SchemeUnix
    THEN IF st = "ErrOther" THEN "stat"
         ELSE IF st = "NotSocket" THEN "not a socket"
         ELSE ""
    ELSE IF uri.Scheme = SchemeTcp
    THEN IF in.socketChanged THEN "tcp socket-path"
         ELSE IF Port(uri) = <<>> THEN "tcp port"
         ELSE ""
    ELSE ""

\* add: the switch on uri.Scheme. "" lets the command go on to the
\* registry; "ssh.Create" hands it to that collaborator; anything else is
\* the error returned.
addCheck(uri, in, st) ==
    IF uri.Scheme = SchemeSsh THEN "ssh.Create"
    ELSE IF uri.Scheme = SchemeUnix
    THEN IF in.identityChanged THEN "unix identity"
         ELSE IF st = "ErrNotExist" THEN ""
         ELSE IF st = "ErrPermission" THEN ""
         ELSE IF st = "ErrOther" THEN "stat"
         ELSE IF st = "NotSocket" THEN "not a socket"
         ELSE ""
    ELSE IF uri.Scheme = SchemeTcp
    THEN IF in.socketChanged THEN "tcp socket-path"
         ELSE IF in.identityChanged THEN "tcp identity"
         ELSE IF Port(uri) = <<>> THEN "tcp port"
         ELSE ""
    ELSE ""

\* add: the error of everything before config.ReadCustomConfig
addResolve(uri, in, st) ==
    IF uri.err THEN "parse"
    ELSE IF ~ValidSSHMode(in.SSHMode) THEN "invalid ssh mode"
    ELSE addCheck(uri, in, st)

\* addDefault as it would be if every add made its connection the default
addDefault_Always(active, in) == in.name

\* add: cfg.Engine.ActiveService after the --default flag is applied
addDefault(active, in) ==
    IF in.defaultChanged /\ in.Default THEN in.name ELSE active

\* add: the config.Destination built from the URI and --identity
addDestination(uri, in) ==
    [URI |-> String(uri),
     Identity |-> IF in.identityChanged THEN in.Identity ELSE ""]

\* addUpsert as it would be if the map were made anew on every add
addUpsert_Replaces(c, name, dst) ==
    [nil |-> FALSE,
     ServiceDestinations |-> [n \in {name} |-> dst],
     ActiveService |-> IF c.nil THEN name ELSE c.ActiveService]

\* add: the nil test and the assignment into ServiceDestinations
addUpsert(c, name, dst) ==
    IF c.nil
    THEN [nil |-> FALSE,
          ServiceDestinations |-> [n \in {name} |-> dst],
          ActiveService |-> name]
    ELSE [c EXCEPT !.ServiceDestinations =
                       [n \in DOMAIN c.ServiceDestinations \cup {name} |->
                           IF n = name THEN dst ELSE c.ServiceDestinations[n]]]

\* addStored as it would be if the registry were written before the scheme
\* is checked
addStored_BeforeChecks(c, in, uri, err, io) ==
    IF uri.err \/ io \in {"read fails", "write fails"} THEN c
    ELSE [nil |-> FALSE,
          ServiceDestinations |->
              [n \in DOMAIN c.ServiceDestinations \cup {in.name} |->
                  IF n = in.name
                  THEN [URI |-> String(uri), Identity |-> in.Identity]
                  ELSE c.ServiceDestinations[n]],
          ActiveService |-> IF c.nil THEN in.name ELSE c.ActiveService]

\* add: the configuration in store when the command has returned
addStored(c, in, uri, err, io) ==
    IF err # "" \/ io # "ok" THEN c
    ELSE addUpsert([c EXCEPT !.ActiveService = addDefault(c.ActiveService, in)],
                   in.name, addDestination(uri, in))

\* add: was cfg.Write called?
addWrote(err, io) == err = "" /\ io # "read fails"

\* add: the error the command returns
addErr(err, io) ==
    IF err # "" THEN err
    ELSE IF io = "read fails" THEN "read"
    ELSE IF io = "write fails" THEN "write"
    ELSE ""

\* create: translateDest, scheme defaulting and url.Parse
createURL(dockerPath) ==
    LET tr == translateDest(dockerPath)
    IN  IF tr.err # "" THEN NoURL ELSE Parse(WithScheme(tr.dest))

\* create: the error of everything before config.ReadCustomConfig
createResolve(dockerPath, uri) ==
    LET tr == translateDest(dockerPath)
    IN  IF tr.err # "" THEN tr.err
        ELSE IF uri.err THEN "parse"
        ELSE ""

\* create: the config.Destination built from the URI
createDestination(uri) == [URI |-> String(uri), Identity |-> ""]

\* createUpsert as it would be if the first connection were not made the
\* default
createUpsert_NoActive(c, name, dst) ==
    [nil |-> FALSE,
     ServiceDestinations |->
         [n \in DOMAIN c.ServiceDestinations \cup {name} |->
             IF n = name THEN dst ELSE c.ServiceDestinations[n]],
     ActiveService |-> c.ActiveService]

\* create: the nil test and the assignment into ServiceDestinations
createUpsert(c, name, dst) ==
    IF c.nil
    THEN [nil |-> FALSE,
          ServiceDestinations |-> [n \in {name} |-> dst],
          ActiveService |-> name]
    ELSE [c EXCEPT !.ServiceDestinations =
                       [n \in DOMAIN c.ServiceDestinations \cup {name} |->
                           IF n = name THEN dst ELSE c.ServiceDestinations[n]]]

\* create: the configuration in store when the command has returned
createStored(c, in, uri, err, io) ==
    IF err # "" \/ io # "ok" THEN c
    ELSE createUpsert(c, in.name, createDestination(uri))

\* create: was cfg.Write called?
createWrote(err, io) == err = "" /\ io # "read fails"

\* create: the error the command returns
createErr(err, io) ==
    IF err # "" THEN err
    ELSE IF io = "read fails" THEN "read"
    ELSE IF io = "write fails" THEN "write"
    ELSE ""

----------------------------------------------------------------------------
(* Command lines                                                           *)

Names == {"a", "b"}

\* --port's default value
DefaultPort == 22

\* --identity: not given, or given as "k"
NoIdentity == [changed |-> FALSE, value |-> ""]

IdentityFlags == {NoIdentity, [changed |-> TRUE, value |-> "k"]}

\* --socket-path: not given, given as "/t", or given as the relative "t"
NoSocket == [changed |-> FALSE, value |-> <<>>]

SocketFlags == {NoSocket,
                [changed |-> TRUE, value |-> <<"/", "t">>],
                [changed |-> TRUE, value |-> <<"t">>]}

\* --default: not given, --default=false, --default
NoDefault == [changed |-> FALSE, value |-> FALSE]

DefaultFlags == {NoDefault,
                 [changed |-> TRUE, value |-> FALSE],
                 [changed |-> TRUE, value |-> TRUE]}

\* --port: not given, or given as 8080
NoPort == [changed |-> FALSE, value |-> DefaultPort]

PortFlags == {NoPort, [changed |-> TRUE, value |-> 8080]}

\* cOpts and args of one add command, and the engine's ssh mode
AddCmd(n, d, id, sock, def, port, mode) ==
    [name |-> n, dest |-> d,
     identityChanged |-> id.changed, Identity |-> id.value,
     socketChanged |-> sock.changed, UDSPath |-> sock.value,
     defaultChanged |-> def.changed, Default |-> def.value,
     portChanged |-> port.changed, Port |-> port.value,
     SSHMode |-> mode]

DestTcpPort == <<"t","c","p",":","/","/","h",":","1">>

DestTcpNoPort == <<"t","c","p",":","/","/","h">>

DestUnix == <<"u","n","i","x",":","/","/","/","s">>

DestUnixHost == <<"u","n","i","x",":","/","/","h">>

DestOther == <<"f","o","o",":","/","/","h">>

DestBare == <<"h">>

DestUpper == <<"T","C","P",":","/","/","h",":","1">>

DestBadPort == <<"t","c","p",":","/","/","h",":","x">>

\* the add commands of the command sequences: every name, --identity and
\* --default with a destination of each scheme, without --socket-path
\* and --port
AddInputs ==
    {AddCmd(n, d, id, NoSocket, def, NoPort, "golang") :
        n \in Names, d \in {DestTcpPort, DestTcpNoPort, DestUnix, DestOther},
        id \in IdentityFlags, def \in DefaultFlags}
    \cup {AddCmd(n, DestBare, NoIdentity, NoSocket, NoDefault, NoPort,
                 "golang") : n \in Names}

\* the add commands run alone: every destination with every flag, and two
\* with an ssh mode ssh.DefineMode does not know
AddInputsAlone ==
    {AddCmd(n, d, id, sock, def, port, "golang") :
        n \in Names,
        d \in {DestTcpPort, DestTcpNoPort, DestUnix, DestUnixHost, DestOther,
               DestBare, DestUpper, DestBadPort},
        id \in IdentityFlags, sock \in SocketFlags, def \in DefaultFlags,
        port \in PortFlags}
    \cup {AddCmd("a", d, NoIdentity, NoSocket, NoDefault, NoPort, "bogus") :
            d \in {DestTcpPort, DestBare}}

\* --docker values
DockerPaths ==
    {<<>>,
     <<"h">>,
     <<"h","o","s","t","=","t","c","p",":","/","/","h",":","1">>,
     <<"h","o","s","t","=","t","c","p",":","/","/","h">>,
     <<"h","o","s","t","=","u","n","i","x",":","/","/","/","s">>,
     <<"t","c","p",":","/","/","h",":","x">>,
     <<"u","s","e","r","=","f","o","o">>,
     <<"h","o","s","t","=","t","c","p",":","/","/","h",":","1",",","c","a","=","x">>}

\* the create commands
CreateInputs == {[name |-> n, dockerPath |-> p] : n \in Names, p \in DockerPaths}

\* addURL and createURL of every command line, computed once
AddURLs == [in \in AddInputs \cup AddInputsAlone |-> addURL(in)]

CreateURLs == [p \in DockerPaths |-> createURL(p)]

\* os.Stat answers only when add asks
StatFor(in) == IF addStats(AddURLs[in], in) THEN StatOutcomes ELSE {"unasked"}

\* the persistence collaborator acts only when the command reaches it
IoFor(err) == IF err = "" THEN IoOutcomes ELSE {"unreached"}

NoCall == [op |-> "none", pending |-> FALSE, in |-> [name |-> ""],
           stat |-> "unasked", err |-> "", wrote |-> FALSE, out |-> <<>>,
           msg |-> <<>>]

NilCfg == [nil |-> TRUE, ServiceDestinations |-> [n \in {} |-> 0],
           ActiveService |-> ""]

----------------------------------------------------------------------------
(* The commands                                                            *)

\* the add command with arguments and flags in, the file system answering st
\* and the persistence collaborator behaving as io. For an ssh destination
\* the command returns what ssh.Create returns: err is "ssh.Create", and
\* whatever that collaborator writes is not part of this command's effect.
\* A failed cfg.Write leaves the stored configuration as it was.
add(in, st, io) ==
    LET uri == AddURLs[in]
        err == addResolve(uri, in, st)
    IN  /\ cfg' = addStored(cfg, in, uri, err, io)
        /\ call' = [op |-> "add", pending |-> FALSE, in |-> in, stat |-> st,
                    err |-> addErr(err, io), wrote |-> addWrote(err, io),
                    out |-> <<>>, msg |-> <<>>]

\* the create command with argument and --docker flag in; st is what os.Stat
\* would answer for the URI's path, which create never asks
create(in, st, io) ==
    LET uri == CreateURLs[in.dockerPath]
        err == createResolve(in.dockerPath, uri)
    IN  /\ cfg' = createStored(cfg, in, uri, err, io)
        /\ call' = [op |-> "create", pending |-> FALSE, in |-> in, stat |-> st,
                    err |-> createErr(err, io), wrote |-> createWrote(err, io),
                    out |-> <<>>, msg |-> <<>>]

----------------------------------------------------------------------------
(* Specifications                                                          *)

\* command sequences, starting without a configuration file
Init ==
    /\ cfg = NilCfg
    /\ call = NoCall

AddStep ==
    \E in \in AddInputs : \E st \in StatFor(in) :
        \E io \in IoFor(addResolve(AddURLs[in], in, st)) : add(in, st, io)

CreateStep ==
    \E in \in CreateInputs :
        \E io \in IoFor(createResolve(in.dockerPath, CreateURLs[in.dockerPath])) :
            create(in, "unasked", io)

Next == AddStep \/ CreateStep

Spec == Init /\ [][Next]_vars

\* one command, run alone without a configuration file or on one that the
\* commands have left (add --identity k a foo://h; add --default b tcp://h:1)
OneCfg == [nil |-> FALSE,
           ServiceDestinations |-> [n \in {"a"} |->
                                       [URI |-> DestTcpPort, Identity |-> ""]],
           ActiveService |-> "a"]

TwoCfg == [nil |-> FALSE,
           ServiceDestinations |->
               [n \in {"a", "b"} |->
                   IF n = "a" THEN [URI |-> DestOther, Identity |-> "k"]
                   ELSE [URI |-> DestTcpPort, Identity |-> ""]],
           ActiveService |-> "b"]

Pending(op, in) == [NoCall EXCEPT !.op = op, !.pending = TRUE, !.in = in]

InitAlone ==
    /\ cfg \in {NilCfg, OneCfg, TwoCfg}
    /\ call \in {Pending("add", in) : in \in AddInputsAlone}
                \cup {Pending("create", in) : in \in CreateInputs}

AddAlone ==
    /\ call.pending
    /\ call.op = "add"
    /\ \E st \in StatFor(call.in) :
          \E io \in IoFor(addResolve(AddURLs[call.in], call.in, st)) :
              add(call.in, st, io)

\* what os.Stat would say of the path of a unix URI that create stores
StatForCreate(in) ==
    IF CreateURLs[in.dockerPath].Scheme = SchemeUnix
    THEN StatOutcomes ELSE {"unasked"}

CreateAlone ==
    /\ call.pending
    /\ call.op = "create"
    /\ \E st \in StatForCreate(call.in) :
          \E io \in IoFor(createResolve(call.in.dockerPath,
                                        CreateURLs[call.in.dockerPath])) :
              create(call.in, st, io)

NextAlone == AddAlone \/ CreateAlone

SpecAlone == InitAlone /\ [][NextAlone]_vars

\* one command, run alone on a configuration file that holds an empty
\* [engine.service_destinations] table and no active_service: the TOML
\* decoder makes of it a map that is not nil and has no entry
EmptyCfg == [nil |-> FALSE, ServiceDestinations |-> [n \in {} |-> 0],
             ActiveService |-> ""]

InitEmptyTable ==
    /\ cfg = EmptyCfg
    /\ call \in {Pending("add", in) : in \in AddInputsAlone}
                \cup {Pending("create", in) : in \in CreateInputs}

SpecEmptyTable == InitEmptyTable /\ [][NextAlone]_vars

\* translateDest applied to one --docker value
MaxTail == 5

TranslateKeys == {<<>>, <<"h">>, <<"h","o","s">>, KeyHost,
                  <<"h","o","s","t","x">>, <<"u","s","e","r">>}

TailChars == {"=", ",", "a", "\\"}

TranslateInputs ==
    {k \o tl : k \in TranslateKeys,
               tl \in UNION {[1..n -> TailChars] : n \in 0..MaxTail}}

InitTranslate ==
    /\ cfg = NilCfg
    /\ call \in {Pending("translateDest", [path |-> p]) : p \in TranslateInputs}

Translate ==
    /\ call.pending
    /\ call.op = "translateDest"
    /\ LET tr == translateDest(call.in.path)
       IN  call' = [call EXCEPT !.pending = FALSE, !.out = tr.dest,
                                !.err = tr.err, !.msg = tr.msg]
    /\ UNCHANGED cfg

SpecTranslate == InitTranslate /\ [][Translate]_vars

----------------------------------------------------------------------------
(* Properties                                                              *)

Entries(c) == DOMAIN c.ServiceDestinations

\* the command that ran last went through to a successful cfg.Write
Upserted(cl) == cl.op \in {"add", "create"} /\ ~cl.pending /\ cl.err = ""

\* the command that ran last was an add that got as far as the scheme switch
Resolved(cl) ==
    /\ cl.op = "add"
    /\ ~cl.pending
    /\ ~Parse(WithScheme(cl.in.dest)).err
    /\ ValidSSHMode(cl.in.SSHMode)

\* the errors returned before the configuration is read
FatalErrors ==
    {"InvalidOption", "UnsupportedOption", "parse", "invalid ssh mode",
     "unix identity", "stat", "not a socket", "tcp socket-path",
     "tcp identity", "tcp port"}

\* add was asked to make the connection the default
SetDefault(cl) == cl.op = "add" /\ cl.in.defaultChanged /\ cl.in.Default

\* C1 (as claimed): a successful add or create on a configuration whose
\* mapping holds no entry, nil or not, leaves ActiveService equal to the
\* name added, whatever --default says.
C1_EmptyMappingActivates ==
    [][(Entries(cfg) = {} /\ Upserted(call'))
          => cfg'.ActiveService = call'.in.name]_vars

\* C2: on a non-empty mapping, a successful add or create leaves
\* ActiveService as it was unless --default was given as true, and then it
\* is the name added; no command without --default=true changes it.
C2_ActiveChangesOnlyOnDefault ==
    [][Entries(cfg) # {} =>
          /\ Upserted(call') =>
                cfg'.ActiveService =
                    IF SetDefault(call') THEN call'.in.name
                    ELSE cfg.ActiveService
          /\ ~SetDefault(call') => cfg'.ActiveService = cfg.ActiveService]_vars

\* C2's case: --default moved the default to the second connection
C2_Witness ==
    /\ Upserted(call)
    /\ SetDefault(call)
    /\ Cardinality(Entries(cfg)) = 2
    /\ cfg.ActiveService = call.in.name

\* C3 (as claimed): a tcp destination without --socket-path and --identity
\* fails with "tcp scheme requires a port" exactly when neither the URI nor
\* --port gives a port; with --port and no port in the URI it is accepted
\* and stored.
C3_TcpPortFromUriOrOverride ==
    (/\ Resolved(call)
     /\ Parse(WithScheme(call.in.dest)).Scheme = SchemeTcp
     /\ ~call.in.socketChanged
     /\ ~call.in.identityChanged)
    => LET uriPort == Port(Parse(WithScheme(call.in.dest)))
       IN  /\ call.err = "tcp port"
                <=> (uriPort = <<>> /\ ~call.in.portChanged)
           /\ (uriPort = <<>> /\ call.in.portChanged)
                => /\ call.err \in {"", "read", "write"}
                   /\ call.err = "" => call.in.name \in Entries(cfg)

\* C4 (as claimed): what create stores has passed the scheme's validation:
\* never a tcp URI without a port, never a unix URI whose path exists and
\* is not a socket.
C4_CreateValidates ==
    (call.op = "create" /\ Upserted(call))
    => LET uri == Parse(cfg.ServiceDestinations[call.in.name].URI)
       IN  /\ ~(uri.Scheme = SchemeTcp /\ Port(uri) = <<>>)
           /\ ~(uri.Scheme = SchemeUnix /\ call.stat = "NotSocket")

\* C5: a command that returns a validation error leaves the stored
\* configuration as it was and has not called cfg.Write.
C5_FatalErrorLeavesRegistry ==
    [][(call'.op \in {"add", "create"} /\ ~call'.pending
        /\ call'.err \in FatalErrors)
          => (cfg' = cfg /\ ~call'.wrote)]_vars

\* C5's case: a command has failed validation on a configuration that holds
\* connections
C5_Witness ==
    /\ call.op \in {"add", "create"}
    /\ ~call.pending
    /\ call.err \in FatalErrors
    /\ Entries(cfg) # {}

\* C6: no stored tcp or unix destination has an identity, and a destination
\* just stored has one only if the command gave --identity.
C6_IdentityOnlyWhenSupplied ==
    \A n \in Entries(cfg) :
        LET dst == cfg.ServiceDestinations[n]
        IN  /\ Parse(dst.URI).Scheme \in {SchemeTcp, SchemeUnix}
                => dst.Identity = ""
            /\ (Upserted(call) /\ call.in.name = n /\ dst.Identity # "")
                => (call.op = "add" /\ call.in.identityChanged)

\* C6's case: a destination stored with the identity the command gave, next
\* to a tcp destination
C6_Witness ==
    /\ Upserted(call)
    /\ call.op = "add"
    /\ call.in.identityChanged
    /\ cfg.ServiceDestinations[call.in.name].Identity = "k"
    /\ \E n \in Entries(cfg) :
          Parse(cfg.ServiceDestinations[n].URI).Scheme = SchemeTcp

\* C7 (as claimed): for a unix destination without --identity the answer of
\* os.Stat for the path (--socket-path when given, else the URI's) decides:
\* not found, permission denied and a socket let the destination be stored
\* with that path, any other error is returned, and a file that is not a
\* socket is refused.
C7_UnixStatDecides ==
    (/\ Resolved(call)
     /\ Parse(WithScheme(call.in.dest)).Scheme = SchemeUnix
     /\ ~call.in.identityChanged)
    => LET path == IF call.in.socketChanged THEN call.in.UDSPath
                   ELSE Parse(WithScheme(call.in.dest)).Path
       IN  /\ call.stat \in StatOutcomes
           /\ call.stat = "ErrOther" => call.err = "stat"
           /\ call.stat = "NotSocket" => call.err = "not a socket"
           /\ call.stat \in {"ErrNotExist", "ErrPermission", "Socket"}
                => /\ call.err \in {"", "read", "write"}
                   /\ call.err = ""
                        => Parse(cfg.ServiceDestinations[call.in.name].URI).Path
                              = path

\* the outcomes of translateDest, with the rejected segments appearing in
\* the message as Shown(rest)
TranslateOutcomes(Shown(_)) ==
    (call.op = "translateDest" /\ ~call.pending)
    => LET path == call.in.path
           eq == Index(path, "=")
           value == From(path, eq + 1)
           comma == Index(value, ",")
       IN  IF path = <<>> THEN call.err = "" /\ call.out = <<>>
           ELSE IF eq = 0 THEN call.err = "" /\ call.out = path
           ELSE IF SubSeq(path, 1, eq - 1) # KeyHost
           THEN call.err = "InvalidOption"
           ELSE IF comma = 0 THEN call.err = "" /\ call.out = value
           ELSE /\ call.err = "UnsupportedOption"
                /\ Contains(call.msg, Shown(From(value, comma + 1)))

Verbatim(s) == s

C9_UpsertTouchesOnlyItsName ==
    [][Upserted(call') =>
          LET n == call'.in.name
              uri == IF call'.op = "add" THEN AddURLs[call'.in]
                     ELSE CreateURLs[call'.in.dockerPath]
          IN  /\ Entries(cfg') = Entries(cfg) \cup {n}
              /\ \A m \in Entries(cfg) \ {n} :
                    cfg'.ServiceDestinations[m] = cfg.ServiceDestinations[m]
              /\ cfg'.ServiceDestinations[n].URI = String(uri)]_vars

\* C9's case: the entry of "a" has been overwritten next to the entry of "b"
C9_Witness ==
    /\ Upserted(call)
    /\ call.in.name = "a"
    /\ Entries(cfg) = {"a", "b"}
    /\ cfg.ServiceDestinations["a"] # TwoCfg.ServiceDestinations["a"]
    /\ cfg.ServiceDestinations["b"] = TwoCfg.ServiceDestinations["b"]

\* C10: starting without a configuration file, once a command has stored a
\* destination the mapping is not empty and ActiveService names one of its
\* entries.
C10_ActiveNamesAnEntry ==
    /\ Upserted(call) => ~cfg.nil
    /\ ~cfg.nil => /\ Entries(cfg) # {}
                   /\ cfg.ActiveService # ""
                   /\ cfg.ActiveService \in Entries(cfg)

\* C10's case: two connections, the default being the one stored first
C10_Witness ==
    /\ Upserted(call)
    /\ Cardinality(Entries(cfg)) = 2
    /\ cfg.ActiveService # call.in.name

====
